---- MODULE Spec2Model ----
(***************************************************************************)
(* A model of main.py, the Telegram relay bot: the per-thread memory, the  *)
(* owner's style samples, the retrying backend call and the handlers.      *)
(*                                                                         *)
(* A text is a sequence of characters.  An ASCII character is the string   *)
(* of that character; any other character is the string "U+XXXX" of its    *)
(* code point, so that lengths and slices count code points as Python's    *)
(* str does.                                                               *)
(***************************************************************************)
EXTENDS Integers, Sequences, FiniteSets, TLC

-----------------------------------------------------------------------------
(* The string literals of main.py *)

\* main.py:112-113, the persona returned when there are no owner samples
DefaultPersona ==
    <<"U+0422", "U+044B", " ", "U+043E", "U+0442", "U+0432", "U+0435", "U+0447", "U+0430",
      "U+0435", "U+0448", "U+044C", " ", "U+043D", "U+0430", " ", "U+0440", "U+0443", "U+0441",
      "U+0441", "U+043A", "U+043E", "U+043C", ".", " ", "U+0421", "U+0442", "U+0438", "U+043B",
      "U+044C", ":", " ", "U+0436", "U+0438", "U+0432", "U+043E", ",", " ", "U+043A", "U+043E",
      "U+0440", "U+043E", "U+0442", "U+043A", "U+043E", ",", " ", "U+043F", "U+043E", " ",
      "U+0434", "U+0435", "U+043B", "U+0443", ",", " ", "U+0431", "U+0435", "U+0437", " ",
      "U+043F", "U+0430", "U+0444", "U+043E", "U+0441", "U+0430", ".", " ", "U+0415", "U+0441",
      "U+043B", "U+0438", " ", "U+0443", "U+043C", "U+0435", "U+0441", "U+0442", "U+043D",
      "U+043E", " ", "U+2014", " ", "U+043B", "U+0451", "U+0433", "U+043A", "U+0438", "U+0439",
      " ", "U+044E", "U+043C", "U+043E", "U+0440", ".", " ", "U+041D", "U+0435", " ", "U+0432",
      "U+044B", "U+0434", "U+0443", "U+043C", "U+044B", "U+0432", "U+0430", "U+0439", " ",
      "U+0444", "U+0430", "U+043A", "U+0442", "U+044B", ".">>

\* main.py:118-124, the fixed part of the style prompt
StyleHeader ==
    <<"U+0422", "U+044B", " ", "U+2014", " ", "U+043F", "U+043E", "U+043C", "U+043E", "U+0449",
      "U+043D", "U+0438", "U+043A", ",", " ", "U+043A", "U+043E", "U+0442", "U+043E", "U+0440",
      "U+044B", "U+0439", " ", "U+041F", "U+0418", "U+0428", "U+0415", "U+0422", " ", "U+0422",
      "U+041E", "U+0427", "U+041D", "U+041E", " ", "U+0412", " ", "U+0421", "U+0422", "U+0418",
      "U+041B", "U+0415", " ", "U+0432", "U+043B", "U+0430", "U+0434", "U+0435", "U+043B",
      "U+044C", "U+0446", "U+0430", " ", "U+0431", "U+043E", "U+0442", "U+0430", ".", "\n",
      "U+041F", "U+0440", "U+0430", "U+0432", "U+0438", "U+043B", "U+0430", ":", "\n", "1",
      ")", " ", "U+041A", "U+043E", "U+043F", "U+0438", "U+0440", "U+0443", "U+0439", " ",
      "U+043C", "U+0430", "U+043D", "U+0435", "U+0440", "U+0443", ":", " ", "U+0434", "U+043B",
      "U+0438", "U+043D", "U+0443", " ", "U+0444", "U+0440", "U+0430", "U+0437", ",", " ",
      "U+0441", "U+043B", "U+0435", "U+043D", "U+0433", ",", " ", "U+044D", "U+043C", "U+043E",
      "U+0434", "U+0437", "U+0438", ",", " ", "U+043F", "U+0443", "U+043D", "U+043A", "U+0442",
      "U+0443", "U+0430", "U+0446", "U+0438", "U+044E", ".", "\n", "2", ")", " ", "U+041D",
      "U+0435", " ", "U+0433", "U+043E", "U+0432", "U+043E", "U+0440", "U+0438", ",", " ",
      "U+0447", "U+0442", "U+043E", " ", "U+0442", "U+044B", " ", "U+043A", "U+043E", "U+043F",
      "U+0438", "U+0440", "U+0443", "U+0435", "U+0448", "U+044C", " ", "U+0441", "U+0442",
      "U+0438", "U+043B", "U+044C", ".", " ", "U+041F", "U+0440", "U+043E", "U+0441", "U+0442",
      "U+043E", " ", "U+043F", "U+0438", "U+0448", "U+0438", " ", "U+0442", "U+0430", "U+043A",
      ".", "\n", "3", ")", " ", "U+041D", "U+0435", " ", "U+043F", "U+0435", "U+0440",
      "U+0435", "U+043D", "U+0438", "U+043C", "U+0430", "U+0439", " ", "U+0441", "U+0442",
      "U+0438", "U+043B", "U+044C", " ", "U+0434", "U+0440", "U+0443", "U+0433", "U+0438",
      "U+0445", " ", "U+043F", "U+043E", "U+043B", "U+044C", "U+0437", "U+043E", "U+0432",
      "U+0430", "U+0442", "U+0435", "U+043B", "U+0435", "U+0439", ",", " ", "U+0442", "U+043E",
      "U+043B", "U+044C", "U+043A", "U+043E", " ", "U+0432", "U+043B", "U+0430", "U+0434",
      "U+0435", "U+043B", "U+044C", "U+0446", "U+0430", ".", "\n", "4", ")", " ", "U+041E",
      "U+0442", "U+0432", "U+0435", "U+0447", "U+0430", "U+0439", " ", "U+043D", "U+0430", " ",
      "U+0440", "U+0443", "U+0441", "U+0441", "U+043A", "U+043E", "U+043C", ",", " ", "U+043A",
      "U+0440", "U+0430", "U+0442", "U+043A", "U+043E", " ", "U+0438", " ", "U+043F", "U+043E",
      " ", "U+0434", "U+0435", "U+043B", "U+0443", ".", "\n", "\n", "U+041F", "U+0440",
      "U+0438", "U+043C", "U+0435", "U+0440", "U+044B", " ", "U+0441", "U+043E", "U+043E",
      "U+0431", "U+0449", "U+0435", "U+043D", "U+0438", "U+0439", " ", "U+0432", "U+043B",
      "U+0430", "U+0434", "U+0435", "U+043B", "U+044C", "U+0446", "U+0430", " ", "(", "U+0434",
      "U+043B", "U+044F", " ", "U+0441", "U+0442", "U+0438", "U+043B", "U+044F", ")", ":", "\n">>

\* main.py:140
EmptyAnswerText ==
    <<"U+041F", "U+0443", "U+0441", "U+0442", "U+043E", "U+0439", " ", "U+043E", "U+0442",
      "U+0432", "U+0435", "U+0442", ".", " ", "U+041F", "U+043E", "U+043F", "U+0440", "U+043E",
      "U+0431", "U+0443", "U+0439", " ", "U+0438", "U+043D", "U+0430", "U+0447", "U+0435", " ",
      "U+0441", "U+0444", "U+043E", "U+0440", "U+043C", "U+0443", "U+043B", "U+0438", "U+0440",
      "U+043E", "U+0432", "U+0430", "U+0442", "U+044C", ".">>

\* main.py:156-158
StartText ==
    <<"U+042F", " ", "U+0418", "U+0418", "-", "U+0431", "U+043E", "U+0442", " ", "U+1F916",
      "\n", "U+041F", "U+0438", "U+0448", "U+0438", " ", "U+0432", " ", "U+044D", "U+0442",
      "U+043E", "U+0439", " ", "U+0442", "U+0435", "U+043C", "U+0435", " ", "U+2014", " ",
      "U+043E", "U+0442", "U+0432", "U+0435", "U+0447", "U+0443", " ", "U+0442", "U+0443",
      "U+0442", " ", "U+0436", "U+0435", ".", "\n", "U+041A", "U+043E", "U+043C", "U+0430",
      "U+043D", "U+0434", "U+044B", ":", " ", "/", "r", "e", "s", "e", "t", " ", "(", "U+0441",
      "U+0431", "U+0440", "U+043E", "U+0441", "U+0438", "U+0442", "U+044C", " ", "U+043A",
      "U+043E", "U+043D", "U+0442", "U+0435", "U+043A", "U+0441", "U+0442", " ", "U+0442",
      "U+0435", "U+043C", "U+044B", ")", ",", " ", "/", "p", "i", "n", "g">>

\* main.py:163
PingText ==
    <<"O", "K", " ", "U+2705">>

\* main.py:169
ResetText ==
    <<"U+041A", "U+043E", "U+043D", "U+0442", "U+0435", "U+043A", "U+0441", "U+0442", " ",
      "U+044D", "U+0442", "U+043E", "U+0439", " ", "U+0442", "U+0435", "U+043C", "U+044B", " ",
      "U+0441", "U+0431", "U+0440", "U+043E", "U+0448", "U+0435", "U+043D", " ", "U+1F9E0">>

\* main.py:175
StyleDeniedText ==
    <<"U+041D", "U+0435", "U+0430", " ", "U+1F642">>

\* main.py:178
StyleClearedText ==
    <<"U+0421", "U+0442", "U+0438", "U+043B", "U+044C", "-", "U+043F", "U+0430", "U+043C",
      "U+044F", "U+0442", "U+044C", " ", "U+043E", "U+0447", "U+0438", "U+0449", "U+0435",
      "U+043D", "U+0430", " ", "U+2705">>

\* main.py:195
NoBotTokenText ==
    <<"U+041E", "U+0448", "U+0438", "U+0431", "U+043A", "U+0430", ":", " ", "B", "O", "T", "_",
      "T", "O", "K", "E", "N", " ", "U+043D", "U+0435", " ", "U+0437", "U+0430", "U+0434",
      "U+0430", "U+043D", " ", "U+0432", " ", "R", "a", "i", "l", "w", "a", "y", " ", "V", "a",
      "r", "i", "a", "b", "l", "e", "s", ".">>

\* main.py:198
NoApiKeyText ==
    <<"U+041E", "U+0448", "U+0438", "U+0431", "U+043A", "U+0430", ":", " ", "L", "L", "M", "_",
      "A", "P", "I", "_", "K", "E", "Y", " ", "(", "U+0438", "U+043B", "U+0438", " ", "O", "P",
      "E", "N", "A", "I", "_", "A", "P", "I", "_", "K", "E", "Y", ")", " ", "U+043D", "U+0435",
      " ", "U+0437", "U+0430", "U+0434", "U+0430", "U+043D", " ", "U+0432", " ", "R", "a", "i",
      "l", "w", "a", "y", " ", "V", "a", "r", "i", "a", "b", "l", "e", "s", ".">>

\* main.py:201
NoOwnerText ==
    <<"U+041E", "U+0448", "U+0438", "U+0431", "U+043A", "U+0430", ":", " ", "O", "W", "N", "E",
      "R", "_", "I", "D", " ", "U+043D", "U+0435", " ", "U+0437", "U+0430", "U+0434", "U+0430",
      "U+043D", ".", " ", "U+0414", "U+043E", "U+0431", "U+0430", "U+0432", "U+044C", " ", "O",
      "W", "N", "E", "R", "_", "I", "D", " ", "U+0432", " ", "R", "a", "i", "l", "w", "a", "y",
      " ", "V", "a", "r", "i", "a", "b", "l", "e", "s", " ", "(", "U+0442", "U+0432", "U+043E",
      "U+0439", " ", "T", "e", "l", "e", "g", "r", "a", "m", " ", "u", "s", "e", "r", "_", "i",
      "d", ")", ".">>

\* main.py:225
RateLimitText ==
    <<"U+041B", "U+0438", "U+043C", "U+0438", "U+0442", " ", "U+0437", "U+0430", "U+043F",
      "U+0440", "U+043E", "U+0441", "U+043E", "U+0432", " ", "U+1F635", "U+200D", "U+1F4AB",
      " ", "U+041F", "U+043E", "U+0434", "U+043E", "U+0436", "U+0434", "U+0438", " ", "2", "0",
      "U+2013", "6", "0", " ", "U+0441", "U+0435", "U+043A", " ", "U+0438", " ", "U+043F",
      "U+043E", "U+0432", "U+0442", "U+043E", "U+0440", "U+0438", ".">>

\* main.py:228, the f-string's fixed prefix
AiErrorPrefix ==
    <<"U+041E", "U+0448", "U+0438", "U+0431", "U+043A", "U+0430", " ", "U+0418", "U+0418", ":",
      " ">>

-----------------------------------------------------------------------------
(* str operations *)

\* The characters str.strip() removes (the ASCII ones).
Whitespace ==
    {" ", "\t", "\n", "\r", "\f"}

\* str.lower() on one character: ASCII and basic Cyrillic capitals.
LowerMap ==
    "A" :> "a" @@ "B" :> "b" @@ "C" :> "c" @@ "D" :> "d" @@ "E" :> "e" @@ "F" :> "f" @@
    "G" :> "g" @@ "H" :> "h" @@ "I" :> "i" @@ "J" :> "j" @@ "K" :> "k" @@ "L" :> "l" @@
    "M" :> "m" @@ "N" :> "n" @@ "O" :> "o" @@ "P" :> "p" @@ "Q" :> "q" @@ "R" :> "r" @@
    "S" :> "s" @@ "T" :> "t" @@ "U" :> "u" @@ "V" :> "v" @@ "W" :> "w" @@ "X" :> "x" @@
    "Y" :> "y" @@ "Z" :> "z" @@ "U+0410" :> "U+0430" @@ "U+0411" :> "U+0431" @@
    "U+0412" :> "U+0432" @@ "U+0413" :> "U+0433" @@ "U+0414" :> "U+0434" @@
    "U+0415" :> "U+0435" @@ "U+0416" :> "U+0436" @@ "U+0417" :> "U+0437" @@
    "U+0418" :> "U+0438" @@ "U+0419" :> "U+0439" @@ "U+041A" :> "U+043A" @@
    "U+041B" :> "U+043B" @@ "U+041C" :> "U+043C" @@ "U+041D" :> "U+043D" @@
    "U+041E" :> "U+043E" @@ "U+041F" :> "U+043F" @@ "U+0420" :> "U+0440" @@
    "U+0421" :> "U+0441" @@ "U+0422" :> "U+0442" @@ "U+0423" :> "U+0443" @@
    "U+0424" :> "U+0444" @@ "U+0425" :> "U+0445" @@ "U+0426" :> "U+0446" @@
    "U+0427" :> "U+0447" @@ "U+0428" :> "U+0448" @@ "U+0429" :> "U+0449" @@
    "U+042A" :> "U+044A" @@ "U+042B" :> "U+044B" @@ "U+042C" :> "U+044C" @@
    "U+042D" :> "U+044D" @@ "U+042E" :> "U+044E" @@ "U+042F" :> "U+044F" @@ "U+0401" :> "U+0451"

LowerChar(c) ==
    IF c \in DOMAIN LowerMap THEN LowerMap[c] ELSE c

\* str.lower()
Lower(s) ==
    [i \in 1..Len(s) |-> LowerChar(s[i])]

RECURSIVE LStrip(_)
\* str.lstrip()
LStrip(s) ==
    IF s # <<>> /\ Head(s) \in Whitespace THEN LStrip(Tail(s)) ELSE s

RECURSIVE RStrip(_)
\* str.rstrip()
RStrip(s) ==
    IF s # <<>> /\ s[Len(s)] \in Whitespace THEN RStrip(SubSeq(s, 1, Len(s) - 1)) ELSE s

\* str.strip(): drop leading and trailing whitespace.
Strip(s) ==
    RStrip(LStrip(s))

\* str.startswith(prefix)
StartsWith(s, prefix) ==
    /\ Len(prefix) <= Len(s)
    /\ SubSeq(s, 1, Len(prefix)) = prefix

\* `sub in s`
Contains(s, sub) ==
    \E i \in 0..(Len(s) - Len(sub)) : SubSeq(s, i + 1, i + Len(sub)) = sub

\* s[:n]
Prefix(s, n) ==
    IF Len(s) <= n THEN s ELSE SubSeq(s, 1, n)

\* s[-n:] of a list, n >= 1
LastN(s, n) ==
    IF Len(s) <= n THEN s ELSE SubSeq(s, Len(s) - n + 1, Len(s))

\* "\n".join(lines)
RECURSIVE JoinLines(_)
JoinLines(lines) ==
    IF lines = <<>> THEN <<>>
    ELSE IF Len(lines) = 1 THEN lines[1]
    ELSE lines[1] \o <<"\n">> \o JoinLines(Tail(lines))

\* Python's None, and a present value, as a sequence of at most one element.
None ==
    <<>>

Some(x) ==
    <<x>>

\* Python's truth value of an optional integer: None and 0 are false.
Truthy(opt) ==
    opt # None /\ opt[1] # 0

-----------------------------------------------------------------------------
(* Values fixed in the program *)

\* deque(maxlen=20) of thread_memory
SessionMaxLen ==
    20

\* deque(maxlen=60) of owner_style_samples
StyleMaxLen ==
    60

\* list(owner_style_samples)[-25:]
StyleExamples ==
    25

\* text[:4000] in safe_reply
ReplyMaxLen ==
    4000

\* call_llm(messages, retries=2)
Retries ==
    2

\* asyncio.sleep(2 + attempt * 3)
BackoffBase ==
    2

BackoffStep ==
    3

-----------------------------------------------------------------------------
(* Bounds of the model *)

\* Updates delivered in one run.
MaxUpdates ==
    2

\* Invocations of handle_text suspended in call_llm's backoff at one time.
MaxInFlight ==
    2

\* The largest cooldown, in seconds, the admission claim is tried with.
MaxCooldown ==
    3

Procs ==
    1..MaxInFlight

-----------------------------------------------------------------------------
(* Inputs: the updates the transport delivers and what the backend returns *)

Users ==
    {1, 2}

\* <<chat id, message_thread_id>>: the thread id is absent outside a forum topic.
Places ==
    {<<100, None>>, <<100, Some(7)>>, <<200, None>>}

\* The date (in seconds) the updates carry: they all arrive within one second.
Dates ==
    {0}

\* What each user types.  The two users never type the same text, so that a
\* stored text tells who wrote it.
TextsOf(u) ==
    IF u = 1
    THEN {<<"h", "i">>, <<" ", "/", "a">>, <<" ", "\n">>}
    ELSE {<<" ", "y", "o">>}

\* An answer longer than one transport message, with whitespace around it.
LongAnswer ==
    <<" ">> \o [i \in 1..(ReplyMaxLen + 1) |-> "x"] \o <<"\n">>

\* resp.choices[0].message.content; the empty text also stands for None.
Contents ==
    {<<"h", "e", "l", "l", "o">>, <<>>, <<" ", "\n">>, LongAnswer}

\* The classes of failure of the backend.
ErrorKinds ==
    {"RateLimited", "QuotaExhausted", "Transient", "Fatal"}

\* str(e) of the exception the client raises for a failure of each class.
ErrorText(kind) ==
    CASE kind = "RateLimited" ->
            <<"E", "r", "r", "o", "r", " ", "c", "o", "d", "e", ":", " ", "4", "2", "9">>
      [] kind = "QuotaExhausted" ->
            <<"E", "r", "r", "o", "r", " ", "c", "o", "d", "e", ":", " ", "4", "0", "2">>
      [] kind = "Transient" ->
            <<"R", "e", "q", "u", "e", "s", "t", " ", "t", "i", "m", "e", "d", " ", "o", "u", "t", ".">>
      [] OTHER ->
            <<"E", "r", "r", "o", "r", " ", "c", "o", "d", "e", ":", " ", "4", "0", "0">>

\* One call of client.chat.completions.create: a response or an exception.
Outcomes ==
    [ok : {TRUE}, content : Contents, kind : {"none"}, err : {<<>>}]
    \cup {[ok |-> FALSE, content |-> <<>>, kind |-> k, err |-> ErrorText(k)] : k \in ErrorKinds}

Updates(handler, users, texts) ==
    {[handler |-> handler, chat_id |-> pl[1], message_thread_id |-> pl[2],
      user_id |-> u, text |-> t, date |-> d] :
        pl \in Places, u \in users, t \in texts, d \in Dates}

CommandText(name) ==
    <<"/">> \o name

-----------------------------------------------------------------------------
(* Earlier traffic: what the buffers hold when the run starts *)

Digit(d) ==
    <<"0", "1", "2", "3", "4", "5", "6", "7", "8", "9">>[d + 1]

\* The i-th earlier message of user 1.
Sample(i) ==
    <<"s", Digit(i \div 10), Digit(i % 10)>>

\* The backend's answer to it.
PastAnswer(i) ==
    <<"r", Digit(i \div 10), Digit(i % 10)>>

\* A session after n successful turns.
PastSession(n) ==
    [i \in 1..(2 * n) |->
        IF i % 2 = 1 THEN [role |-> "user", content |-> Sample((i + 1) \div 2)]
        ELSE [role |-> "assistant", content |-> PastAnswer(i \div 2)]]

\* The style samples after n messages of the owner.
PastStyle(n) ==
    [i \in 1..n |-> Sample(i)]

\* <<turns in the session of chat 100 outside a topic, style samples>>
Fills ==
    {<<0, 0>>, <<10, 59>>}

\* The earlier messages of user 1.
PastTexts ==
    {Sample(i) : i \in 1..99}

\* The texts user u has written, as handle_text sees them (stripped).
AuthoredBy(u) ==
    {Strip(t) : t \in TextsOf(u)} \cup (IF u = 1 THEN PastTexts ELSE {})

-----------------------------------------------------------------------------
(* State *)

VARIABLES
    BOT_TOKEN,            \* whether the variable is set
    LLM_API_KEY,          \* whether the variable is set
    OWNER_ID,             \* 0 when the variable is not set
    thread_memory,        \* thread_key -> deque(maxlen=20) of {role, content}
    owner_style_samples,  \* deque(maxlen=60) of texts
    inv,                  \* the handle_text invocations suspended in call_llm
    last,                 \* the handler invocation that returned most recently
    delivered             \* the number of updates delivered so far

vars ==
    <<BOT_TOKEN, LLM_API_KEY, OWNER_ID, thread_memory, owner_style_samples, inv, last, delivered>>

config ==
    <<BOT_TOKEN, LLM_API_KEY, OWNER_ID>>

NoUpdate ==
    [handler |-> "none", chat_id |-> 0, message_thread_id |-> None, user_id |-> 0,
     text |-> <<>>, date |-> 0]

\* The locals of one handler invocation.
Idle ==
    [pc |-> "idle", update |-> NoUpdate, update_id |-> 0, text |-> <<>>, messages |-> <<>>,
     attempt |-> 0, calls |-> 0, last_err |-> None, sleeps |-> <<>>, raised |-> FALSE, content |-> None, answer |-> <<>>,
     sent |-> <<>>, request |-> <<>>]

-----------------------------------------------------------------------------
(* Helpers of main.py *)

get_thread_id(update) ==
    update.message_thread_id

\* thread_key, forgetting the chat.
ThreadKeyWithoutChat(update) ==
    <<0, IF Truthy(get_thread_id(update)) THEN get_thread_id(update)[1] ELSE 0>>

\* (chat_id, get_thread_id(update) or 0)
thread_key(update) ==
    <<update.chat_id,
      IF Truthy(get_thread_id(update)) THEN get_thread_id(update)[1] ELSE 0>>

\* safe_reply, handing over the whole text.
SafeReplyUncut(update, text) ==
    IF Truthy(get_thread_id(update))
    THEN [via |-> "send_message", chat_id |-> update.chat_id,
          message_thread_id |-> get_thread_id(update), text |-> text]
    ELSE [via |-> "reply_text", chat_id |-> update.chat_id,
          message_thread_id |-> None, text |-> text]

\* The message safe_reply hands to the transport.
safe_reply(update, text) ==
    IF Truthy(get_thread_id(update))
    THEN [via |-> "send_message", chat_id |-> update.chat_id,
          message_thread_id |-> get_thread_id(update), text |-> Prefix(text, ReplyMaxLen)]
    ELSE [via |-> "reply_text", chat_id |-> update.chat_id,
          message_thread_id |-> None, text |-> Prefix(text, ReplyMaxLen)]

\* DequeAppend, overwriting the newest item of a full deque.
DequeAppendOverNewest(d, x, maxlen) ==
    IF Len(d) < maxlen THEN Append(d, x) ELSE Append(SubSeq(d, 1, Len(d) - 1), x)

\* deque.append on a deque of the given maxlen: the oldest item falls out.
DequeAppend(d, x, maxlen) ==
    IF Len(d) < maxlen THEN Append(d, x) ELSE Append(Tail(d), x)

\* thread_memory[key] on the defaultdict: a missing key gets an empty deque.
Memory(tm, key) ==
    IF key \in DOMAIN tm THEN tm ELSE tm @@ (key :> <<>>)

\* build_style_system_prompt, showing the oldest samples instead of the newest.
BuildStylePromptOldest(samples) ==
    IF samples = <<>> THEN DefaultPersona
    ELSE LET shown == Prefix(samples, StyleExamples)
             examples == JoinLines([i \in 1..Len(shown) |-> <<"-", " ">> \o shown[i]])
         IN  StyleHeader \o examples \o <<"\n">>

\* The system prompt: the default persona without samples, else the header and
\* the last 25 samples, one "- sample" line each.
build_style_system_prompt(samples) ==
    IF samples = <<>> THEN DefaultPersona
    ELSE LET shown == LastN(samples, StyleExamples)
             examples == JoinLines([i \in 1..Len(shown) |-> <<"-", " ">> \o shown[i]])
         IN  StyleHeader \o examples \o <<"\n">>

\* CaptureStyle, learning from every user.
CaptureStyleOfAnyone(samples, uid, text) ==
    IF ~StartsWith(text, <<"/">>)
    THEN DequeAppend(samples, text, StyleMaxLen)
    ELSE samples

\* handle_text, lines 208-211: the owner's non-command text becomes a style sample.
CaptureStyle(samples, uid, text) ==
    IF uid = OWNER_ID /\ ~StartsWith(text, <<"/">>)
    THEN DequeAppend(samples, text, StyleMaxLen)
    ELSE samples

\* Assemble, with the new text put before the history.
AssembleTextFirst(system_prompt, history, text) ==
    <<[role |-> "system", content |-> system_prompt]>>
    \o <<[role |-> "user", content |-> text]>>
    \o history

\* handle_text, lines 215-217: the payload of the request.
Assemble(system_prompt, history, text) ==
    <<[role |-> "system", content |-> system_prompt]>>
    \o history
    \o <<[role |-> "user", content |-> text]>>

\* Prepare, building the system prompt before the style capture.
PrepareThenCapture(samples, history, uid, text) ==
    [samples |-> CaptureStyle(samples, uid, text),
     messages |-> Assemble(build_style_system_prompt(samples), history, text)]

\* handle_text, lines 204-217: the style capture, then the payload built with
\* the system prompt of the samples as they are after it.
Prepare(samples, history, uid, text) ==
    LET captured == CaptureStyle(samples, uid, text)
    IN  [samples |-> captured,
         messages |-> Assemble(build_style_system_prompt(captured), history, text)]

\* Remember, storing the user's text alone.
RememberUserOnly(tm, key, text, answer) ==
    [tm EXCEPT ![key] =
        DequeAppend(@, [role |-> "user", content |-> text], SessionMaxLen)]

\* Remember, storing the answer before the user's text.
RememberAnswerFirst(tm, key, text, answer) ==
    LET tm1 == [tm EXCEPT ![key] =
                    DequeAppend(@, [role |-> "assistant", content |-> answer], SessionMaxLen)]
    IN  [tm1 EXCEPT ![key] =
            DequeAppend(@, [role |-> "user", content |-> text], SessionMaxLen)]

\* handle_text, lines 232-233: the turn is appended to the thread's memory.
Remember(tm, key, text, answer) ==
    LET tm1 == [tm EXCEPT ![key] =
                    DequeAppend(@, [role |-> "user", content |-> text], SessionMaxLen)]
    IN  [tm1 EXCEPT ![key] =
            DequeAppend(@, [role |-> "assistant", content |-> answer], SessionMaxLen)]

\* Answer, without the fallback for a blank response.
AnswerWithoutFallback(content) ==
    Strip(content)

\* call_llm, lines 139-140: the answer of a response.
Answer(content) ==
    IF Strip(content) = <<>> THEN EmptyAnswerText ELSE Strip(content)

\* ShouldRetry, off by one.
ShouldRetryOnceMore(attempt, retries) ==
    attempt <= retries

\* call_llm, line 144: whether a failed attempt is followed by another.
ShouldRetry(attempt, retries) ==
    attempt < retries

\* Backoff, with the same delay after every attempt.
BackoffConstant(attempt) ==
    BackoffBase

\* call_llm, line 145: the delay after a failed attempt.
Backoff(attempt) ==
    BackoffBase + attempt * BackoffStep

\* handle_text, lines 223-228: the reply to an exception of call_llm.
FailureText(err_txt) ==
    IF Contains(err_txt, <<"4", "2", "9">>) \/ Contains(Lower(err_txt), <<"r", "a", "t", "e">>)
    THEN RateLimitText
    ELSE AiErrorPrefix \o err_txt

-----------------------------------------------------------------------------
(* One attempt of call_llm and what handle_text does with its result.  Each   *)
(* operator takes the locals r of the invocation, the outcome o of the call   *)
(* of the backend and the thread memory tm, and gives the new locals and the  *)
(* new thread memory.                                                         *)

\* The attempt returned a response: lines 139-140, then 232-235.
Succeed(r, o, tm) ==
    LET answer == Answer(o.content)
    IN  [rec |-> [r EXCEPT !.pc = "done", !.last_err = None,
                           !.content = Some(o.content), !.answer = answer,
                           !.sent = Append(@, safe_reply(r.update, answer))],
         tm |-> Remember(tm, thread_key(r.update), r.text, answer)]

\* The attempt raised and another follows: lines 142-146.
Suspend(r, o, tm) ==
    [rec |-> [r EXCEPT !.pc = "sleeping", !.sleeps = Append(@, Backoff(r.attempt))],
     tm |-> tm]

\* Fail, storing the user's text before giving up.
FailKeepsUser(r, o, tm) ==
    [rec |-> [r EXCEPT !.pc = "done", !.raised = TRUE,
                       !.sent = Append(@, safe_reply(r.update, FailureText(r.last_err[1].err)))],
     tm |-> [tm EXCEPT ![thread_key(r.update)] =
                DequeAppend(@, [role |-> "user", content |-> r.text], SessionMaxLen)]]

\* The last attempt raised: line 147, then 221-229.
Fail(r, o, tm) ==
    [rec |-> [r EXCEPT !.pc = "done", !.raised = TRUE,
                       !.sent = Append(@, safe_reply(r.update, FailureText(r.last_err[1].err)))],
     tm |-> tm]

\* Request, with the history read again from the thread memory.
RequestFromMemory(r, tm) ==
    Assemble(r.messages[1].content, tm[thread_key(r.update)], r.text)

\* call_llm, line 136: the payload of a call is the list handle_text built.
Request(r, tm) ==
    r.messages

\* The body of call_llm's loop for attempt r.attempt, lines 133-147.
Attempt(r, o, tm) ==
    LET called == [r EXCEPT !.calls = @ + 1, !.request = Request(r, tm)]
        caught == [called EXCEPT !.last_err = Some(o)]
    IN  IF o.ok THEN Succeed(called, o, tm)
        ELSE IF ShouldRetry(r.attempt, Retries) THEN Suspend(caught, o, tm)
        ELSE Fail(caught, o, tm)

\* A handler that only replies, or has done its work, returns.
Returned(update, texts) ==
    [Idle EXCEPT !.pc = "done", !.update = update, !.update_id = delivered + 1,
                 !.text = Strip(update.text),
                 !.sent = [i \in 1..Len(texts) |-> safe_reply(update, texts[i])]]

\* The lowest free slot for a suspended invocation.
FreeSlot(p) ==
    /\ inv[p].pc = "idle"
    /\ \A q \in Procs : q < p => inv[q].pc # "idle"

-----------------------------------------------------------------------------
(* Initial states *)

Init ==
    /\ BOT_TOKEN \in BOOLEAN
    /\ LLM_API_KEY \in BOOLEAN
    /\ OWNER_ID \in {0, 1}
    /\ \E fill \in Fills :
        \* earlier traffic needs a configuration that lets handle_text through
        /\ fill # <<0, 0>> => BOT_TOKEN /\ LLM_API_KEY /\ OWNER_ID # 0
        /\ thread_memory = IF fill[1] = 0 THEN <<>> ELSE (<<100, 0>> :> PastSession(fill[1]))
        /\ owner_style_samples = PastStyle(fill[2])
    /\ inv = [p \in Procs |-> Idle]
    /\ last = Idle
    /\ delivered = 0

-----------------------------------------------------------------------------
(* Handlers.  main() raises without BOT_TOKEN, so no handler runs then. *)

\* ConfigError, not looking at the key of the backend.
ConfigErrorIgnoringKey ==
    IF ~BOT_TOKEN THEN Some(NoBotTokenText)
    ELSE IF OWNER_ID = 0 THEN Some(NoOwnerText)
    ELSE None

\* handle_text, lines 194-202: the reply that ends the handler when a setting
\* is missing.
ConfigError ==
    IF ~BOT_TOKEN THEN Some(NoBotTokenText)
    ELSE IF ~LLM_API_KEY THEN Some(NoApiKeyText)
    ELSE IF OWNER_ID = 0 THEN Some(NoOwnerText)
    ELSE None

\* /start
Start(update) ==
    /\ BOT_TOKEN
    /\ delivered < MaxUpdates
    /\ delivered' = delivered + 1
    /\ last' = Returned(update, <<StartText>>)
    /\ UNCHANGED <<config, thread_memory, owner_style_samples, inv>>

\* /ping
Ping(update) ==
    /\ BOT_TOKEN
    /\ delivered < MaxUpdates
    /\ delivered' = delivered + 1
    /\ last' = Returned(update, <<PingText>>)
    /\ UNCHANGED <<config, thread_memory, owner_style_samples, inv>>

\* Reset, emptying every session.
ResetEverywhere(update) ==
    /\ BOT_TOKEN
    /\ delivered < MaxUpdates
    /\ delivered' = delivered + 1
    /\ thread_memory' = [k \in DOMAIN Memory(thread_memory, thread_key(update)) |-> <<>>]
    /\ last' = Returned(update, <<ResetText>>)
    /\ UNCHANGED <<config, owner_style_samples, inv>>

\* /reset
Reset(update) ==
    /\ BOT_TOKEN
    /\ delivered < MaxUpdates
    /\ delivered' = delivered + 1
    /\ thread_memory' = [Memory(thread_memory, thread_key(update))
                            EXCEPT ![thread_key(update)] = <<>>]
    /\ last' = Returned(update, <<ResetText>>)
    /\ UNCHANGED <<config, owner_style_samples, inv>>

\* StyleReset, open to every user.
StyleResetByAnyone(update) ==
    /\ BOT_TOKEN
    /\ delivered < MaxUpdates
    /\ delivered' = delivered + 1
    /\ owner_style_samples' = <<>>
    /\ last' = Returned(update, <<StyleClearedText>>)
    /\ UNCHANGED <<config, thread_memory, inv>>

\* /style_reset
StyleReset(update) ==
    /\ BOT_TOKEN
    /\ delivered < MaxUpdates
    /\ delivered' = delivered + 1
    /\ IF OWNER_ID # 0 /\ update.user_id # OWNER_ID
       THEN /\ last' = Returned(update, <<StyleDeniedText>>)
            /\ UNCHANGED owner_style_samples
       ELSE /\ owner_style_samples' = <<>>
            /\ last' = Returned(update, <<StyleClearedText>>)
    /\ UNCHANGED <<config, thread_memory, inv>>

\* handle_text, from the update to the first suspension in call_llm or the return.
HandleText(p, update) ==
    /\ BOT_TOKEN
    /\ delivered < MaxUpdates
    /\ FreeSlot(p)
    /\ delivered' = delivered + 1
    /\ UNCHANGED config
    /\ LET text == Strip(update.text)
       IN  IF text = <<>>
           THEN /\ last' = Returned(update, <<>>)
                /\ UNCHANGED <<thread_memory, owner_style_samples, inv>>
           ELSE IF ConfigError # None
           THEN /\ last' = Returned(update, <<ConfigError[1]>>)
                /\ UNCHANGED <<thread_memory, owner_style_samples, inv>>
           ELSE \E o \in Outcomes :
                LET key == thread_key(update)
                    tm == Memory(thread_memory, key)
                    prepared == Prepare(owner_style_samples, tm[key], update.user_id, text)
                    r == [Idle EXCEPT !.update = update, !.update_id = delivered + 1,
                                      !.text = text, !.messages = prepared.messages]
                    res == Attempt(r, o, tm)
                IN  /\ owner_style_samples' = prepared.samples
                    /\ thread_memory' = res.tm
                    /\ IF res.rec.pc = "sleeping"
                       THEN inv' = [inv EXCEPT ![p] = res.rec] /\ UNCHANGED last
                       ELSE last' = res.rec /\ UNCHANGED inv

\* handle_text resumes after call_llm's sleep with the next attempt.
Wake(p, o) ==
    /\ inv[p].pc = "sleeping"
    /\ LET res == Attempt([inv[p] EXCEPT !.attempt = @ + 1], o, thread_memory)
       IN  /\ thread_memory' = res.tm
           /\ IF res.rec.pc = "sleeping"
              THEN inv' = [inv EXCEPT ![p] = res.rec] /\ UNCHANGED last
              ELSE last' = res.rec /\ inv' = [inv EXCEPT ![p] = Idle]
    /\ UNCHANGED <<config, owner_style_samples, delivered>>

Next ==
    \/ \E u \in Updates("start", Users, {CommandText(<<"s", "t", "a", "r", "t">>)}) : Start(u)
    \/ \E u \in Updates("ping", Users, {CommandText(<<"p", "i", "n", "g">>)}) : Ping(u)
    \/ \E u \in Updates("reset", Users, {CommandText(<<"r", "e", "s", "e", "t">>)}) : Reset(u)
    \/ \E u \in Updates("style_reset", Users,
                        {CommandText(<<"s", "t", "y", "l", "e", "_", "r", "e", "s", "e", "t">>)}) :
            StyleReset(u)
    \/ \E p \in Procs, uid \in Users :
            \E u \in Updates("handle_text", {uid}, TextsOf(uid)) : HandleText(p, u)
    \/ \E p \in Procs, o \in Outcomes : Wake(p, o)

Spec ==
    Init /\ [][Next]_vars

\* The states right after a first update, a /ping, has been answered.
InitAfterPing ==
    /\ BOT_TOKEN = TRUE
    /\ LLM_API_KEY \in BOOLEAN
    /\ OWNER_ID \in {0, 1}
    /\ thread_memory = <<>>
    /\ owner_style_samples = <<>>
    /\ inv = [p \in Procs |-> Idle]
    /\ \E u \in Updates("ping", Users, {CommandText(<<"p", "i", "n", "g">>)}) :
            last = [Idle EXCEPT !.pc = "done", !.update = u, !.update_id = 1,
                                !.text = Strip(u.text),
                                !.sent = <<safe_reply(u, PingText)>>]
    /\ delivered = 1

\* The runs from there on in which the event loop resumes every coroutine whose
\* sleep has ended.
FairSpec ==
    InitAfterPing /\ [][Next]_vars /\ \A p \in Procs : WF_vars(\E o \in Outcomes : Wake(p, o))

-----------------------------------------------------------------------------
(* What the claims speak of *)

\* The invocations of handle_text suspended in call_llm.
Suspended ==
    {inv[p] : p \in {q \in Procs : inv[q].pc = "sleeping"}}

\* The invocations in view: the suspended ones and the one that returned last.
Runs ==
    Suspended \cup (IF last.pc = "done" THEN {last} ELSE {})

\* The session of a key in thread memory tm; a key not yet used has none.
Session(tm, key) ==
    IF key \in DOMAIN tm THEN tm[key] ELSE <<>>

\* The keys of the places the updates come from.
Keys ==
    {<<pl[1], IF pl[2] = None THEN 0 ELSE pl[2][1]>> : pl \in Places}

\* r is an invocation of handle_text that called the backend.
Called(r) ==
    r.update.handler = "handle_text" /\ r.calls >= 1

\* r is an invocation of handle_text whose call_llm returned an answer.
Succeeded(r) ==
    Called(r) /\ r.pc = "done" /\ ~r.raised

\* r is an invocation of handle_text whose call_llm raised.
Failed(r) ==
    Called(r) /\ r.pc = "done" /\ r.raised

\* The history part of the payload of r.
History(r) ==
    SubSeq(r.messages, 2, Len(r.messages) - 1)

\* Every session is a sequence of (user, assistant) pairs.
Paired(tm) ==
    \A k \in DOMAIN tm :
        /\ Len(tm[k]) % 2 = 0
        /\ \A i \in 1..Len(tm[k]) :
            tm[k][i].role = (IF i % 2 = 1 THEN "user" ELSE "assistant")

\* The key of the place an update comes from: its chat and its topic, 0 when
\* it comes from no topic.
PlaceKey(update) ==
    <<update.chat_id,
      IF update.message_thread_id = None THEN 0 ELSE update.message_thread_id[1]>>

\* The invocations of handle_text that start in this step.
NewRuns ==
    {r \in {last'} \cup {inv'[p] : p \in Procs} :
        delivered' = delivered + 1 /\ r.update_id = delivered'}

\* In this step an attempt of some invocation failed: it was suspended for a
\* retry, or call_llm raised and handle_text returned.
AttemptFailed ==
    \/ \E p \in Procs : inv'[p].pc = "sleeping" /\ inv'[p] # inv[p]
    \/ last' # last /\ Failed(last')

-----------------------------------------------------------------------------
(* Claims *)

\* C1: when the generation call fails, the invocation leaves every session as
\* it was (no step of a failing attempt writes to thread memory), handle_text
\* sends exactly one failure reply, and in every reachable state every session
\* consists of whole (user, assistant) pairs.
C1_FailureLeavesSession ==
    /\ [][AttemptFailed =>
            \A k \in Keys : Session(thread_memory', k) = Session(thread_memory, k)]_vars
    /\ [](Failed(last) =>
            /\ Len(last.sent) = 1
            /\ last.sent[1].text \in
                 {RateLimitText, Prefix(AiErrorPrefix \o last.last_err[1].err, ReplyMaxLen)}
            /\ last.answer = <<>>)
    /\ []Paired(thread_memory)

\* C1 witness: a call that raised after all its attempts, with the session it
\* was asked about still holding the history the request was built from.
C1_Witness ==
    /\ Failed(last)
    /\ last.calls = Retries + 1
    /\ Len(History(last)) = SessionMaxLen
    /\ thread_memory[thread_key(last.update)] = History(last)

\* The two entries of one turn.
Turn(text, answer) ==
    <<[role |-> "user", content |-> text], [role |-> "assistant", content |-> answer]>>

\* C2 (as amended): when the backend returns an answer a that is not blank,
\* handle_text sends one reply, the first 4000 characters of a stripped of its
\* surrounding whitespace, and the session of the key becomes what it was
\* followed by (user: the stripped text), (assistant: the stripped a), cut to
\* its most recent 20 entries.
C2_SuccessfulTurn ==
    [][(last' # last /\ Succeeded(last') /\ Strip(last'.content[1]) # <<>>) =>
        LET key == thread_key(last'.update)
            h == Session(thread_memory, key)
            t == Strip(last'.update.text)
            a == Strip(last'.content[1])
        IN  /\ Len(last'.sent) = 1
            /\ last'.sent[1].text = Prefix(a, ReplyMaxLen)
            /\ thread_memory'[key] = LastN(h \o Turn(t, a), SessionMaxLen)]_vars

\* C2 witness: scenario A, "hi" answered "hello" on an empty session.
C2_Witness ==
    /\ Succeeded(last)
    /\ last.update.text = <<"h", "i">>
    /\ last.content = Some(<<"h", "e", "l", "l", "o">>)
    /\ last.messages[1].content = StyleHeader \o <<"-", " ", "h", "i", "\n">>
    /\ Len(last.messages) = 2
    /\ last.sent[1].text = <<"h", "e", "l", "l", "o">>
    /\ thread_memory[thread_key(last.update)]
         = Turn(<<"h", "i">>, <<"h", "e", "l", "l", "o">>)

\* C2 as first stated: for a non-empty answer a the reply is a itself and the
\* session gets (user: text), (assistant: a).
C2_Original ==
    [][(last' # last /\ Succeeded(last') /\ last'.content[1] # <<>>) =>
        LET key == thread_key(last'.update)
            h == Session(thread_memory, key)
            a == last'.content[1]
        IN  /\ Len(last'.sent) = 1
            /\ last'.sent[1].text = a
            /\ thread_memory'[key] = LastN(h \o Turn(last'.text, a), SessionMaxLen)]_vars

\* C3: whatever the cooldown, a message that arrives for a key less than the
\* cooldown after a message for that key that was let through to the backend
\* makes no backend call.
C3_AdmissionGate ==
    [][\A cooldown \in 1..MaxCooldown : \A r1 \in Runs : \A r2 \in NewRuns :
        ( /\ Called(r1)
          /\ r2.update.handler = "handle_text"
          /\ r2.text # <<>>
          /\ PlaceKey(r1.update) = PlaceKey(r2.update)
          /\ r2.update.date >= r1.update.date
          /\ r2.update.date - r1.update.date < cooldown )
        => r2.calls = 0]_vars

\* C4: after a first attempt that failed with QuotaExhausted or Fatal, call_llm
\* is not suspended for another attempt.
C4_NoRetryOnNonRetryable ==
    \A r \in Suspended :
        r.calls = 1 => r.last_err[1].kind \notin {"QuotaExhausted", "Fatal"}

\* C5: call_llm calls the backend at most retries + 1 = 3 times; it raises only
\* after exactly 3 failed calls (so a backend that fails with Transient every
\* time is called exactly 3 times); every resumption makes exactly one more
\* call, and after a call it is either suspended again or has returned for
\* good; and a suspended call always comes to an end.
C5_BoundedRetry ==
    /\ [](\A r \in Runs : Called(r) =>
            /\ r.calls <= Retries + 1
            /\ r.calls = r.attempt + 1
            /\ (r.pc = "sleeping" => r.calls <= Retries)
            /\ (Failed(r) => r.calls = Retries + 1))
    /\ [][\A p \in Procs : (inv[p].pc = "sleeping" /\ inv'[p] # inv[p]) =>
            \/ /\ inv'[p].pc = "sleeping"
               /\ inv'[p].calls = inv[p].calls + 1
               /\ last' = last
            \/ /\ inv'[p].pc = "idle"
               /\ last'.pc = "done"
               /\ last'.update_id = inv[p].update_id
               /\ last'.calls = inv[p].calls + 1]_vars
    /\ \A p \in Procs : (inv[p].pc = "sleeping") ~> (inv[p].pc = "idle")

\* C5 witness: three calls, the last failed with Transient, and call_llm raised.
C5_Witness ==
    /\ Failed(last)
    /\ last.calls = 3
    /\ last.last_err[1].kind = "Transient"
    /\ Len(last.sleeps) = 2

C7_BoundedFifo ==
    /\ [](\A k \in DOMAIN thread_memory : Len(thread_memory[k]) <= SessionMaxLen)
    /\ [](Len(owner_style_samples) <= StyleMaxLen)
    /\ [][(last' # last /\ Succeeded(last')) =>
            thread_memory'[PlaceKey(last'.update)]
              = LastN(Session(thread_memory, PlaceKey(last'.update))
                        \o Turn(last'.text, last'.answer), SessionMaxLen)]_vars
    /\ [][\A r \in NewRuns :
            (Called(r) /\ r.update.user_id = OWNER_ID /\ r.text[1] # "/") =>
                owner_style_samples'
                  = LastN(owner_style_samples \o <<r.text>>, StyleMaxLen)]_vars
    /\ [][\A k \in Keys :
            LET old == Session(thread_memory, k)
                new == Session(thread_memory', k)
            IN  new # old =>
                  \/ new = <<>>
                  \/ /\ Len(new) >= 2
                     /\ new = LastN(old \o SubSeq(new, Len(new) - 1, Len(new)),
                                    SessionMaxLen)]_vars
    /\ [][owner_style_samples' # owner_style_samples =>
            \/ owner_style_samples' = <<>>
            \/ owner_style_samples'
                 = LastN(owner_style_samples
                           \o <<owner_style_samples'[Len(owner_style_samples')]>>,
                         StyleMaxLen)]_vars

\* C7 witness: both buffers are full and have lost their oldest entries; the
\* newest entries are the last turn and the last text of the owner.
C7_Witness ==
    /\ Len(owner_style_samples) = StyleMaxLen
    /\ owner_style_samples[1] = Sample(2)
    /\ owner_style_samples[StyleMaxLen] = <<"h", "i">>
    /\ Len(Session(thread_memory, <<100, 0>>)) = SessionMaxLen
    /\ thread_memory[<<100, 0>>][1].content = Sample(3)
    /\ thread_memory[<<100, 0>>][SessionMaxLen].content = <<"h", "e", "l", "l", "o">>

\* C8: every style sample is a text written by the owner that does not begin
\* with "/", and the persona prefix of no request contains a text written by
\* another user.
C8_StyleIsolation ==
    /\ {owner_style_samples[i] : i \in 1..Len(owner_style_samples)} \subseteq AuthoredBy(OWNER_ID)
    /\ \A i \in 1..Len(owner_style_samples) : owner_style_samples[i][1] # "/"
    /\ \A r \in Runs :
        Called(r) =>
            /\ r.messages[1].role = "system"
            /\ \A u \in Users \ {OWNER_ID} : \A t \in AuthoredBy(u) \ {<<>>} :
                ~Contains(r.messages[1].content, t)

\* C8 witness: after a text of the owner, another user's text has been
\* answered, and the samples hold the owner's text alone.
C8_Witness ==
    /\ Succeeded(last)
    /\ last.update.user_id # OWNER_ID
    /\ last.text = <<"y", "o">>
    /\ owner_style_samples = << <<"h", "i">> >>
    /\ last.messages[1].content = StyleHeader \o <<"-", " ", "h", "i", "\n">>

\* C9: the payload of a request is one system element with the persona prefix
\* built from the style samples, then the session of the key as it is, in
\* order, then one user element with the new text, |h| + 2 elements in all;
\* building it changes no session, and the samples change at most by the
\* capture of the new text.
C9_PromptAssembly ==
    [][\A r \in NewRuns :
        Called(r) =>
            LET h == Session(thread_memory, PlaceKey(r.update))
            IN  /\ Len(r.messages) = Len(h) + 2
                /\ r.messages[1] = [role |-> "system",
                                    content |-> build_style_system_prompt(owner_style_samples')]
                /\ \A i \in 1..Len(h) : r.messages[i + 1] = h[i]
                /\ r.messages[Len(h) + 2] = [role |-> "user", content |-> r.text]
                /\ r.pc = "sleeping" =>
                     \A k \in Keys : Session(thread_memory', k) = Session(thread_memory, k)
                /\ owner_style_samples' \in
                     {owner_style_samples,
                      LastN(owner_style_samples \o <<r.text>>, StyleMaxLen)}]_vars

\* C9 witness: a request with a full session as its history is suspended after
\* its first attempt, and the session is still that history.
C9_Witness ==
    \E r \in Suspended :
        /\ Len(r.messages) = SessionMaxLen + 2
        /\ r.messages[2].content = Sample(1)
        /\ r.messages[SessionMaxLen + 2].content = <<"y", "o">>
        /\ thread_memory[PlaceKey(r.update)] = History(r)

\* C10: when an attempt returns a blank response, call_llm returns the fallback
\* text at once, with nothing raised and no further attempt, and handle_text
\* stores (user: text), (assistant: fallback) and replies with the fallback.
C10_EmptyResponseFallback ==
    [][(last' # last /\ last'.content # None /\ Strip(last'.content[1]) = <<>>) =>
        LET key == PlaceKey(last'.update)
        IN  /\ last'.pc = "done"
            /\ ~last'.raised
            /\ last'.last_err = None
            /\ last'.answer = EmptyAnswerText
            /\ Len(last'.sent) = 1
            /\ last'.sent[1].text = EmptyAnswerText
            /\ thread_memory'[key]
                 = LastN(Session(thread_memory, key) \o Turn(last'.text, EmptyAnswerText),
                         SessionMaxLen)
            /\ \A p \in Procs : inv'[p].update_id # last'.update_id]_vars

\* C10 witness: a whitespace-only response on the second attempt.
C10_Witness ==
    /\ last.content = Some(<<" ", "\n">>)
    /\ last.calls = 2
    /\ last.sent[1].text = EmptyAnswerText
    /\ thread_memory[PlaceKey(last.update)] = Turn(<<"h", "i">>, EmptyAnswerText)

-----------------------------------------------------------------------------
(* Claims on failures, configuration, replies and the style samples *)

\* The first n characters of s, all of s when it has no more.
FirstChars(s, n) ==
    SubSeq(s, 1, IF Len(s) < n THEN Len(s) ELSE n)

\* The generic failure message for the exception text err, as it is delivered.
GenericFailureReply(err) ==
    FirstChars(AiErrorPrefix \o err, ReplyMaxLen)

\* C11: a failed generation call is surfaced by exactly one reply: the
\* rate-limit message for a RateLimited failure, the generic failure message
\* for a Transient one, and for a QuotaExhausted or Fatal failure a message of
\* its own, which is neither of those two.
C11_FailureClassReplies ==
    Failed(last) =>
        LET kind == last.last_err[1].kind
            text == last.sent[1].text
        IN  /\ Len(last.sent) = 1
            /\ kind = "RateLimited" => text = RateLimitText
            /\ kind = "Transient" => text = GenericFailureReply(last.last_err[1].err)
            /\ kind \in {"QuotaExhausted", "Fatal"} =>
                    text \notin {RateLimitText, GenericFailureReply(last.last_err[1].err)}

\* In this step a handler of the given name runs on a new update.
Handles(name) ==
    /\ delivered' = delivered + 1
    /\ last'.update_id = delivered'
    /\ last'.update.handler = name

\* C12: /reset leaves the session of its own key empty, whether the key had a
\* session or not, answers with the reset notice and raises nothing, and leaves
\* every other session, the style samples and the suspended invocations as
\* they were; a session emptied this way is still bounded by 20 entries.
C12_ResetFrame ==
    /\ [][Handles("reset") =>
            LET k == PlaceKey(last'.update)
            IN  /\ k \in DOMAIN thread_memory'
                /\ thread_memory'[k] = <<>>
                /\ DOMAIN thread_memory' = DOMAIN thread_memory \cup {k}
                /\ \A k2 \in DOMAIN thread_memory \ {k} :
                        thread_memory'[k2] = thread_memory[k2]
                /\ owner_style_samples' = owner_style_samples
                /\ inv' = inv
                /\ ~last'.raised
                /\ Len(last'.sent) = 1
                /\ last'.sent[1].text = ResetText]_vars
    /\ [](\A k \in DOMAIN thread_memory : Len(thread_memory[k]) <= SessionMaxLen)

\* C12 witness: a /reset in chat 100 has emptied the session that held ten
\* turns, and the 59 style samples are still there.
C12_Witness ==
    /\ last.pc = "done"
    /\ last.update.handler = "reset"
    /\ PlaceKey(last.update) = <<100, 0>>
    /\ delivered = 1
    /\ thread_memory[<<100, 0>>] = <<>>
    /\ owner_style_samples = PastStyle(59)

Given(r) ==
    CASE r.update.handler = "start" -> StartText
      [] r.update.handler = "ping" -> PingText
      [] r.update.handler = "reset" -> ResetText
      [] r.update.handler = "style_reset" ->
            IF OWNER_ID # 0 /\ r.update.user_id # OWNER_ID
            THEN StyleDeniedText ELSE StyleClearedText
      [] OTHER ->
            IF Succeeded(r) THEN r.answer
            ELSE IF Failed(r) THEN FailureText(r.last_err[1].err)
            ELSE ConfigError[1]

\* C14: every message handed to the transport carries at most 4000 characters,
\* which are the first 4000 of the text safe_reply was given, and goes to the
\* chat of the update, into its topic when it has one.
C14_ReplyCap ==
    \A r \in Runs : \A i \in 1..Len(r.sent) :
        /\ Len(r.sent[i].text) <= ReplyMaxLen
        /\ r.sent[i].text = FirstChars(Given(r), ReplyMaxLen)
        /\ r.sent[i].chat_id = r.update.chat_id
        /\ r.sent[i].message_thread_id = r.update.message_thread_id
        /\ r.sent[i].via =
             (IF r.update.message_thread_id = None THEN "reply_text" ELSE "send_message")

\* C14 witness: an answer of 4001 characters has been sent into topic 7 as a
\* message of 4000.
C14_Witness ==
    /\ Succeeded(last)
    /\ Len(last.answer) = ReplyMaxLen + 1
    /\ last.update.message_thread_id = Some(7)
    /\ Len(last.sent) = 1
    /\ Len(last.sent[1].text) = ReplyMaxLen
    /\ last.sent[1].via = "send_message"

\* The session s followed by the turn of invocation r, as a deque of 20 keeps it.
WithTurn(s, r) ==
    LET all == s \o <<[role |-> "user", content |-> r.text],
                      [role |-> "assistant", content |-> r.answer]>>
    IN  SubSeq(all, (IF Len(all) > SessionMaxLen THEN Len(all) - SessionMaxLen ELSE 0) + 1,
               Len(all))

\* C15: in every state each session has even length and alternates user and
\* assistant entries, starting with a user entry; and whatever invocations are
\* suspended meanwhile, a step changes a session only by emptying it or by
\* adding behind what it holds the two entries of the one invocation that
\* returns in this step, next to each other, with the oldest pair falling out
\* of a full session.
C15_PairsUnderInterleaving ==
    /\ []Paired(thread_memory)
    /\ [][\A k \in Keys :
            Session(thread_memory', k) # Session(thread_memory, k) =>
                \/ Session(thread_memory', k) = <<>>
                \/ /\ last' # last
                   /\ Succeeded(last')
                   /\ PlaceKey(last'.update) = k
                   /\ Session(thread_memory', k) = WithTurn(Session(thread_memory, k), last')]_vars

\* C15 witness: the first message was suspended in its backoff while the second,
\* for the same key, was answered; the first is answered after it, and the
\* session holds the pair of the second followed by the pair of the first.
C15_Witness ==
    /\ Succeeded(last)
    /\ last.update_id = 1
    /\ last.calls >= 2
    /\ delivered = 2
    /\ LET s == Session(thread_memory, PlaceKey(last.update))
       IN  /\ Len(s) = 4
           /\ s[1] = [role |-> "user", content |-> <<"y", "o">>]
           /\ s[2].role = "assistant"
           /\ s[3] = [role |-> "user", content |-> last.text]
           /\ s[4] = [role |-> "assistant", content |-> last.answer]
           /\ Len(History(last)) = 0

\* The delays before attempts 1..n: 2 + 3 * m after failed attempt m.
Schedule(n) ==
    [i \in 1..n |-> 2 + 3 * (i - 1)]

\* C16: the suspensions of a call_llm are, in order, 2 + 3n after each failed
\* attempt n < 2, one per failed attempt and strictly increasing: a call
\* suspended after attempt n has made n + 1 calls and n + 1 suspensions, a call
\* that raised has made 3 calls and 2 suspensions, none after the last attempt,
\* and a call that returned an answer at its c-th call has made c - 1
\* suspensions, none after the successful attempt.
C16_BackoffSchedule ==
    \A r \in Runs :
        Called(r) =>
            /\ \A i, j \in 1..Len(r.sleeps) : i < j => r.sleeps[i] < r.sleeps[j]
            /\ r.pc = "sleeping" =>
                    /\ r.attempt < Retries
                    /\ r.calls = r.attempt + 1
                    /\ r.sleeps = Schedule(r.attempt + 1)
            /\ Failed(r) =>
                    /\ r.calls = Retries + 1
                    /\ r.sleeps = Schedule(Retries)
            /\ Succeeded(r) =>
                    /\ r.calls <= Retries + 1
                    /\ r.sleeps = Schedule(r.calls - 1)

\* C16 witness: a call that failed three times was suspended for 2 and then
\* for 5, and not again before it raised.
C16_Witness ==
    /\ Failed(last)
    /\ last.calls = 3
    /\ last.sleeps = <<2, 5>>

\* C17: the history of a request is the session as it was when the payload was
\* built; every call of the backend made for the request, the first and each
\* retry, sends that same payload; no step taken while the call is suspended,
\* a /reset or another invocation's turn included, changes it; and a call that
\* fails and is suspended leaves every session as it was.
C17_SnapshotIndependence ==
    /\ [](\A r \in Runs : Called(r) => r.request = r.messages)
    /\ [][/\ \A r \in NewRuns :
                Called(r) => History(r) = Session(thread_memory, PlaceKey(r.update))
          /\ \A p \in Procs :
                inv[p].pc = "sleeping" =>
                    LET after == IF inv'[p].pc = "sleeping" THEN inv'[p] ELSE last'
                    IN  /\ after.update_id = inv[p].update_id
                        /\ after.messages = inv[p].messages
                        /\ after.request = inv[p].messages
          /\ \A p \in Procs :
                (inv'[p].pc = "sleeping" /\ inv'[p] # inv[p]) =>
                    \A k \in Keys : Session(thread_memory', k) = Session(thread_memory, k)]_vars

\* C17 witness: the first message was sent with the ten turns of its session
\* and suspended, a /reset emptied the session, and the retry that was
\* answered still carried the ten turns; the session holds the new turn alone.
C17_Witness ==
    /\ Succeeded(last)
    /\ last.update_id = 1
    /\ delivered = 2
    /\ last.calls >= 2
    /\ History(last) = PastSession(10)
    /\ last.request = last.messages
    /\ Len(Session(thread_memory, <<100, 0>>)) = 2

\* The lines "- sample" of the samples from the i-th to the last, each ended by
\* a newline.
RECURSIVE ExampleLines(_, _)
ExampleLines(samples, i) ==
    IF i > Len(samples) THEN <<>>
    ELSE <<"-", " ">> \o samples[i] \o <<"\n">> \o ExampleLines(samples, i + 1)

\* The persona prefix that embeds the most recent min(25, n) of n >= 1 samples.
RecentPrefix(samples) ==
    LET n == Len(samples)
        k == IF n < 25 THEN n ELSE 25
    IN  StyleHeader \o ExampleLines(samples, n - k + 1)

\* C18: in every state the persona prefix for the style samples as they are is
\* the default persona when there is none, and otherwise the header followed
\* by the lines of the most recent min(25, n) samples, oldest first, and of no
\* other sample.
C18_PrefixRendering ==
    build_style_system_prompt(owner_style_samples) =
        (IF Len(owner_style_samples) = 0 THEN DefaultPersona
         ELSE RecentPrefix(owner_style_samples))

\* C18 witness: the owner's "hi" is the 60th sample, and the request sent for
\* it carried the prefix with samples 36 to 60 and without sample 35.
C18_Witness ==
    /\ Called(last)
    /\ Len(owner_style_samples) = 60
    /\ owner_style_samples[60] = <<"h", "i">>
    /\ last.messages[1].content = RecentPrefix(owner_style_samples)
    /\ last.messages[1].content = StyleHeader \o ExampleLines(owner_style_samples, 36)
    /\ last.messages[1].content # StyleHeader \o ExampleLines(owner_style_samples, 35)
    /\ last.messages[1].content # DefaultPersona

\* C19: whatever the settings, a /style_reset of a user other than OWNER_ID
\* leaves the style samples as they were and one of OWNER_ID leaves them empty;
\* samples that were there are gone only after a /style_reset of OWNER_ID; and
\* a /style_reset changes no session and no suspended invocation.
C19_StyleResetByOwnerOnly ==
    [][/\ Handles("style_reset") =>
            /\ thread_memory' = thread_memory
            /\ inv' = inv
            /\ last'.update.user_id # OWNER_ID => owner_style_samples' = owner_style_samples
            /\ last'.update.user_id = OWNER_ID => owner_style_samples' = <<>>
       /\ (owner_style_samples # <<>> /\ owner_style_samples' = <<>>) =>
            /\ Handles("style_reset")
            /\ last'.update.user_id = OWNER_ID]_vars

\* C19 witness: user 2, who is not the owner, has sent /style_reset after the
\* owner's "hi", was refused, and the 60 samples are still there.
C19_Witness ==
    /\ OWNER_ID = 1
    /\ last.pc = "done"
    /\ last.update.handler = "style_reset"
    /\ last.update.user_id = 2
    /\ delivered = 2
    /\ Len(last.sent) = 1
    /\ last.sent[1].text = StyleDeniedText
    /\ Len(owner_style_samples) = 60

\* C20: a message of the owner that is no command is the newest style sample
\* from the step it arrives in, and the persona prefix of its own request
\* already has it as its last line; the later attempts of the request, a
\* failing last one included, leave the samples and every session as they
\* were; and a message that is empty or whitespace only gets no reply, makes
\* no call and changes neither the samples nor the thread memory.
C20_CaptureBeforeGeneration ==
    [][/\ \A r \in NewRuns :
            (Called(r) /\ r.update.user_id = OWNER_ID /\ r.text[1] # "/") =>
                /\ owner_style_samples' # <<>>
                /\ owner_style_samples'[Len(owner_style_samples')] = r.text
                /\ SubSeq(owner_style_samples', 1, Len(owner_style_samples') - 1) =
                     (IF Len(owner_style_samples) < 60 THEN owner_style_samples
                      ELSE Tail(owner_style_samples))
                /\ r.messages[1].content = RecentPrefix(owner_style_samples')
       /\ \A p \in Procs :
            (inv[p].pc = "sleeping" /\ inv'[p] # inv[p] /\ (inv'[p].pc = "sleeping" \/ Failed(last'))) =>
                /\ owner_style_samples' = owner_style_samples
                /\ thread_memory' = thread_memory
       /\ (Handles("handle_text") /\ last'.text = <<>>) =>
            /\ last'.sent = <<>>
            /\ last'.calls = 0
            /\ owner_style_samples' = owner_style_samples
            /\ thread_memory' = thread_memory
            /\ inv' = inv]_vars

\* C20 witness: the owner's "hi" was captured, sent with a prefix that ends
\* with its line, and the call failed three times: the sample is still there
\* and the session is empty.
C20_Witness ==
    /\ Failed(last)
    /\ last.update.user_id = OWNER_ID
    /\ last.text = <<"h", "i">>
    /\ owner_style_samples = <<last.text>>
    /\ last.messages[1].content = StyleHeader \o <<"-", " ", "h", "i", "\n">>
    /\ Session(thread_memory, PlaceKey(last.update)) = <<>>

====
